---- MODULE Spec2Model ----
(***************************************************************************)
(* ZipLin3: the tree synchronisation engine (client.backup / client.send / *)
(* client.send_file / client.clean_artifacts) and the scheduling daemon    *)
(* (CronDaemon.check_cron / trigger_cron / service) of                     *)
(* src/src/ziplin3/client.py.                                              *)
(*                                                                         *)
(* Environment assumed throughout: the process has a terminal attached     *)
(* (log(..., end='\r') calls os.get_terminal_size()), the target directory *)
(* handed to backup exists, and the md5 digest separates the file contents *)
(* of the model.                                                           *)
(*                                                                         *)
(* The daemon is followed from a constructed CronDaemon whose cron objects *)
(* were put into its crons dict directly: register_cron does not put them  *)
(* there, and cron.load returns None for the files that load_crons finds.  *)
(* The cache directory is shared with other processes, which write the     *)
(* activity flag.  A daemon never connects, so its backups are local.      *)
(***************************************************************************)
EXTENDS Integers, Sequences, FiniteSets, TLC

VARIABLES
    src,                \* the origin file system: path -> node
    dst,                \* the file system under target_path: path -> node
    ssh_enabled,        \* client.ssh_enabled
    sftp,               \* client.sftp is not None
    open_channels,      \* sftp channels opened and not closed
    total_backup_size,  \* client.total_backup_size
    completed_size,     \* client.completed_size
    copied_size,        \* client.copied_size
    files_sent,         \* client.files_sent
    runs,               \* number of backup calls made so far
    args,               \* the options of the session's backup calls
    archives,           \* the archive files next to the origin, by name
    trace,              \* the events of the last backup call, in order
    last_exc,           \* the exception that ended send or backup ("none")
    summary,            \* the counters printed by the last backup call
    crons,              \* CronDaemon.crons: the jobs, in insertion order
    store,              \* the files of the cache directory: name -> record
    check_path,         \* CHECK_PATH: "dir", or the text of a regular file
    active,             \* ACTIVE_PATH: "missing", or the text of the file
    now,                \* the clock, in units of 1/Res second
    pc,                 \* where the program is: constructed, serving, ...
    ticks,              \* iterations of the poll loop counted so far
    fired,              \* the trigger attempts so far, in order
    verdict,            \* the result of the last check_cron call
    call                \* the last method call recorded: what and outcome

cronvars ==
    <<crons, store, check_path, active, now, pc, ticks, fired, verdict, call>>

syncvars == <<src, dst, ssh_enabled, sftp, open_channels, total_backup_size,
              completed_size, copied_size, files_sent, runs, args, archives,
              trace, last_exc, summary>>

vars == <<syncvars, cronvars>>

-----------------------------------------------------------------------------
(* Bounds of the model.                                                    *)

\* file contents are 0 .. MaxContent; content 0 is the empty file
MaxContent == 1
\* backup calls made on one client instance
MaxRuns == 2
\* clock units per second (timestamps are floats, check_cron truncates)
Res == 2
\* iterations of the poll loop in one behaviour of the daemon
MaxTicks == 3
\* seconds of daemon time explored after the start of the service
CronHorizon == 180
\* seconds of polling followed for a daily job: a day and three minutes
PollHorizon == 86580
\* calls of register_cron, delete_cron and set_activity made on one daemon
MaxCalls == 1

-----------------------------------------------------------------------------
(* File systems.  A path is a sequence of base names below the directory   *)
(* that holds the origin (for src) or below target_path (for dst); the     *)
(* origin is <<"T">> and its mirror is target_path/T.                      *)

Root == <<"T">>

Paths == {<<"T">>, <<"T", "a">>, <<"T", "b">>, <<"T", "b", "a">>}

\* the enumeration order of os.walk / listdir used by the model
NameOrder == <<"a", "b">>

Absent == [kind |-> "absent", data |-> 0]
Dir == [kind |-> "dir", data |-> 0]
File(c) == [kind |-> "file", data |-> c]

Contents == 0 .. MaxContent
Nodes == {Absent, Dir} \cup {File(c) : c \in Contents}

Parent(p) == SubSeq(p, 1, Len(p) - 1)
Name(p) == p[Len(p)]
Children(p) == {q \in Paths : Len(q) = Len(p) + 1 /\ Parent(q) = p}
Below(p) == {q \in Paths : Len(q) > Len(p) /\ SubSeq(q, 1, Len(p)) = p}

\* a tree: whatever exists lies in an existing directory
WellFormed(fs) ==
    \A p \in Paths : (fs[p] # Absent /\ Len(p) > 1) => fs[Parent(p)] = Dir

Trees == {fs \in [Paths -> Nodes] : WellFormed(fs)}

\* the base names found in directory p, in enumeration order
Listing(fs, p) ==
    SelectSeq(NameOrder,
              LAMBDA n : Append(p, n) \in Paths /\ fs[Append(p, n)] # Absent)

\* st_size of a file with the given content
SizeOf(c) == IF c = 0 THEN 0 ELSE 1

RECURSIVE SumSizes(_, _)
SumSizes(fs, S) ==
    IF S = {} THEN 0
    ELSE LET q == CHOOSE x \in S : TRUE
         IN (IF fs[q].kind = "file" THEN SizeOf(fs[q].data) ELSE 0)
            + SumSizes(fs, S \ {q})

\* client.get_size on an existing node
get_size(fs, p) ==
    IF fs[p].kind = "dir" THEN SumSizes(fs, Below(p)) ELSE SizeOf(fs[p].data)

-----------------------------------------------------------------------------
(* The client during one backup call: a record of its fields, the two file *)
(* systems, the exception in flight (exc) and the events so far.           *)

Raise(st, e) == [st EXCEPT !.exc = e]
Event(st, e, p) == [st EXCEPT !.trace = Append(@, [ev |-> e, path |-> p])]

\* paramiko's SSHClient.open_sftp: a new channel on the transport; without
\* a connection the transport is None and the call raises AttributeError
open_sftp(st) ==
    IF st.ssh THEN [st EXCEPT !.sftp = TRUE, !.chans = @ + 1]
    ELSE Raise(st, "AttributeError")

\* self.sftp = self.sftp.close()
close_sftp(st) == [st EXCEPT !.sftp = FALSE, !.chans = @ - 1]

\* client.path_exists on the destination (sftp.stat, or is_file/is_dir)
path_exists(fs, p) == fs[p] # Absent

\* client.checksum: the md5 of a file; `md5sum` on a remote directory
\* prints nothing, so the first token of its output is the empty string
checksum(fs, p) == IF fs[p].kind = "file" THEN <<"md5", fs[p].data>> ELSE <<>>

\* client.exec of `md5sum <path>`, first token: a command that fails on the
\* remote host leaves stdout empty, and stderr is looked at but not raised
remote_checksum(st, p) == IF st.digest THEN checksum(st.dst, p) ELSE <<>>

\* client.is_identical
is_identical(st, p, force) ==
    IF force \/ ~path_exists(st.dst, p) THEN FALSE
    ELSE checksum(st.src, p) =
            (IF st.ssh THEN remote_checksum(st, p) ELSE checksum(st.dst, p))

\* the local checksum opens the target with open(path, 'rb')
is_identical_raises(st, p, force) ==
    ~force /\ path_exists(st.dst, p) /\ ~st.ssh /\ st.dst[p].kind = "dir"

\* sftp.put / shutil.move can write the destination file
put_ok(st, p) ==
    /\ st.dst[p].kind # "dir"
    /\ Len(p) > 1 => st.dst[Parent(p)].kind = "dir"

\* a transfer that renames the origin onto the target with a connection too
put_by_move(st, p) ==
    [st EXCEPT !.dst[p] = st.src[p], !.src[p] = Absent]

\* sftp.put copies; shutil.move renames the origin onto the target
put(st, p) ==
    IF st.ssh THEN [st EXCEPT !.dst[p] = st.src[p]]
    ELSE [st EXCEPT !.dst[p] = st.src[p], !.src[p] = Absent]

\* client.send_file
send_file(st, p, force, log_path) ==
    LET one_time_sftp == ~st.sftp
        s1 == IF one_time_sftp THEN open_sftp(st) ELSE st
    IN  IF s1.exc # "none" THEN s1
        ELSE
        LET size == get_size(s1.src, p)
            s2 == [s1 EXCEPT !.completed = @ + size]
        IN  IF is_identical_raises(s2, p, force)
            THEN Raise(s2, "IsADirectoryError")
            ELSE IF is_identical(s2, p, force)
            THEN \* format_progress divides by total_backup_size
                 IF s2.total = 0 THEN Raise(s2, "ZeroDivisionError")
                 ELSE Event(s2, "skip", p)
            ELSE IF s2.total = 0 \/ ~put_ok(s2, p)
            THEN \* except Exception: log(..., e, ...) joins a non-string
                 \* when a log file is given, and returns at once otherwise
                 IF log_path THEN Raise(Event(s2, "fail", p), "TypeError")
                 ELSE Event(s2, "fail", p)
            ELSE LET s3 == Event(put(s2, p), "put", p)
                     s4 == IF one_time_sftp THEN close_sftp(s3) ELSE s3
                 IN  [s4 EXCEPT !.copied = @ + size, !.sent = @ + 1]

\* sftp.mkdir / os.mkdir of the mirror directory
mkdir(st, p) ==
    IF Len(p) > 1 /\ st.dst[Parent(p)].kind # "dir"
    THEN Raise(st, "IOError")
    ELSE Event([st EXCEPT !.dst[p] = Dir], "mkdir", p)

\* removal of one artifact: sftp.remove, else sftp.rmdir (os.remove/os.rmdir)
remove_node(st, q) ==
    IF st.dst[q].kind = "dir" /\ \E c \in Children(q) : st.dst[c] # Absent
    THEN Raise(st, "IOError")
    ELSE Event([st EXCEPT !.dst[q] = Absent], "remove", q)

RECURSIVE clean_loop(_, _, _, _)

\* the loop of clean_artifacts without the test for tracked names
clean_loop_untracked(st, p, names, tracked) ==
    IF names = <<>> \/ st.exc # "none" THEN st
    ELSE clean_loop(remove_node(st, Append(p, Head(names))), p, Tail(names),
                    tracked)

\* for base_name in remote_names: tracked names are left, the rest removed
clean_loop(st, p, names, tracked) ==
    IF names = <<>> \/ st.exc # "none" THEN st
    ELSE LET n == Head(names)
             s1 == IF n \in tracked THEN st ELSE remove_node(st, Append(p, n))
         IN  clean_loop(s1, p, Tail(names), tracked)

\* client.clean_artifacts
clean_artifacts(st, p, local_dirs, local_files) ==
    IF st.dst[p].kind # "dir" THEN Raise(st, "NotADirectoryError")
    ELSE clean_loop(st, p, Listing(st.dst, p),
                    {local_dirs[i] : i \in 1 .. Len(local_dirs)}
                    \cup {local_files[i] : i \in 1 .. Len(local_files)})

RECURSIVE send_files(_, _, _, _, _)
send_files(st, p, files, force, log_path) ==
    IF files = <<>> \/ st.exc # "none" THEN st
    ELSE send_files(send_file(st, Append(p, Head(files)), force, log_path),
                    p, Tail(files), force, log_path)

\* the end of client.send: close the channel, reset the counters at the root
send_finish(st, root) ==
    LET s1 == IF st.ssh /\ st.sftp THEN close_sftp(st) ELSE st
    IN  IF root
        THEN [s1 EXCEPT !.total = 0, !.completed = 0, !.copied = 0, !.sent = 0]
        ELSE s1

RECURSIVE send(_, _, _, _, _)
RECURSIVE send_dirs(_, _, _, _)

\* the recursion of client.send: neither force nor clean_artifacts is
\* handed down, so the nested call runs with its defaults
send_dirs(st, p, dirs, log_path) ==
    IF dirs = <<>> \/ st.exc # "none" THEN st
    ELSE send_dirs(send(st, Append(p, Head(dirs)), FALSE, TRUE, log_path),
                   p, Tail(dirs), log_path)

\* send recursing into the directories of a level before it sends the files
send_dirs_first(st, p, force, clean, log_path) ==
    LET root == st.total = 0
    IN  IF root /\ st.src[p] = Absent THEN Raise(st, "FileNotFoundError")
        ELSE
        LET s1 == IF root
                  THEN Event([st EXCEPT !.total = get_size(st.src, p)], "size", p)
                  ELSE st
            s2 == IF s1.ssh THEN open_sftp(s1) ELSE s1
        IN  IF s2.src[p].kind = "dir"
            THEN LET s2w == Event(s2, "walk", p)
                     s3 == IF path_exists(s2.dst, p) THEN s2w ELSE mkdir(s2w, p)
                     names == Listing(s2.src, p)
                     files == SelectSeq(names,
                                LAMBDA n : s2.src[Append(p, n)].kind = "file")
                     dirs == SelectSeq(names,
                                LAMBDA n : s2.src[Append(p, n)].kind = "dir")
                     s4 == send_dirs(s3, p, dirs, log_path)
                     s5 == send_files(s4, p, files, force, log_path)
                 IN  IF s5.exc # "none" \/ ~clean THEN s5
                     ELSE clean_artifacts(s5, p, dirs, files)
            ELSE IF s2.src[p].kind = "file"
            THEN LET s3 == send_file(s2, p, force, log_path)
                 IN  IF s3.exc # "none" THEN s3 ELSE send_finish(s3, root)
            ELSE send_finish(s2, root)

\* client.send; the event "size" marks the call that takes itself for the
\* root and computes total_backup_size
send(st, p, force, clean, log_path) ==
    LET root == st.total = 0
    IN  IF root /\ st.src[p] = Absent THEN Raise(st, "FileNotFoundError")
        ELSE
        LET s1 == IF root
                  THEN Event([st EXCEPT !.total = get_size(st.src, p)], "size", p)
                  ELSE st
            s2 == IF s1.ssh THEN open_sftp(s1) ELSE s1
        IN  IF s2.src[p].kind = "dir"
            THEN LET s2w == Event(s2, "walk", p)
                     s3 == IF path_exists(s2.dst, p) THEN s2w ELSE mkdir(s2w, p)
                     names == Listing(s2.src, p)
                     files == SelectSeq(names,
                                LAMBDA n : s2.src[Append(p, n)].kind = "file")
                     dirs == SelectSeq(names,
                                LAMBDA n : s2.src[Append(p, n)].kind = "dir")
                     s4 == send_files(s3, p, files, force, log_path)
                     s5 == send_dirs(s4, p, dirs, log_path)
                 IN  IF s5.exc # "none" \/ ~clean THEN s5
                     ELSE clean_artifacts(s5, p, dirs, files)
            ELSE IF s2.src[p].kind = "file"
            THEN LET s3 == send_file(s2, p, force, log_path)
                 IN  IF s3.exc # "none" THEN s3 ELSE send_finish(s3, root)
            ELSE send_finish(s2, root)

\* an option of the session, or its default when the session does not set it
Option(field, default) ==
    IF field \in DOMAIN args THEN args[field] ELSE default

\* the client as send finds it; digest: md5sum works on the remote host
ClientState ==
    [src |-> src, dst |-> dst, ssh |-> ssh_enabled, sftp |-> sftp,
     chans |-> open_channels, total |-> total_backup_size,
     completed |-> completed_size, copied |-> copied_size,
     sent |-> files_sent, digest |-> Option("digest", TRUE),
     exc |-> "none", trace |-> <<>>]

-----------------------------------------------------------------------------
(* Operations.                                                             *)

\* a file name is the sequence of its parts between the dots
PlainName == <<"T">>
Names == {PlainName, <<"T", "data">>, <<"T", "zip">>, <<"T", "tar", "gz">>}

\* a test that knows '.zip' only
is_archive_zip_only(name) == \E i \in 2 .. Len(name) : name[i] = "zip"

\* backup: one of '.zip', '.rar', '.tar' occurs in origin_path.name
is_archive(name) ==
    \E i \in 2 .. Len(name) : name[i] \in {"zip", "rar", "tar"}

\* backup: if compress and not is_archive, before send
builds_archive(compress_opt, archive) == compress_opt /\ ~archive

\* a removal that does not ask whether the origin was an archive already
removes_whenever_compress(compress_opt, archive) == compress_opt

\* backup: if compress and not is_archive, after send: origin_path.unlink()
removes_archive(compress_opt, archive) == compress_opt /\ ~archive

\* backup: self.compress(origin_path, compress=compress_format); compress
\* takes (path, format), so binding the keyword fails before its body runs
compress_call == "TypeError"

\* the formats of the command line, the last one unknown to shutil
Formats == {"zip", "tar", "gztar", "rar"}
Registered == {"zip", "tar", "gztar"}

\* shutil.make_archive(base, format): the file it writes is base + extension
Extension(format) ==
    IF format = "gztar" THEN <<"tar", "gz">> ELSE <<format>>

\* Path.with_suffix: the last suffix of the name, if any, is replaced
with_suffix(name, suffix) ==
    IF Len(name) > 1 THEN Append(SubSeq(name, 1, Len(name) - 1), suffix)
    ELSE Append(name, suffix)

\* client.compress(path, format) on a directory: make_archive, then the loop
\* that sleeps until suffixed_path exists
compress(files, name, format) ==
    IF format \notin Registered
    THEN [files |-> files, exc |-> "ValueError", waits |-> FALSE]
    ELSE LET made == files \cup {name \o Extension(format)}
         IN  [files |-> made, exc |-> "none",
              waits |-> with_suffix(name, format) \notin made]

\* client.backup(origin, target, compress, compress_format, clean, force,
\* True, log_path): the archive stage, send under a bare except, the removal
\* of the archive, then the summary
Backup ==
    /\ runs < MaxRuns
    /\ pc = "none"
    /\ LET compress_opt == Option("compress", FALSE)
           archive == is_archive(Option("origin", PlainName))
       IN  IF builds_archive(compress_opt, archive)
           THEN /\ trace' = <<[ev |-> "compress", path |-> Root]>>
                /\ last_exc' = compress_call
                /\ UNCHANGED <<src, dst, sftp, open_channels,
                               total_backup_size, completed_size, copied_size,
                               files_sent, summary>>
           ELSE LET st == send(ClientState, Root, args.force, args.clean,
                               args.log_path)
                IN  /\ src' = IF removes_archive(compress_opt, archive)
                              THEN [st.src EXCEPT ![Root] = Absent]
                              ELSE st.src
                    /\ dst' = st.dst
                    /\ sftp' = st.sftp
                    /\ open_channels' = st.chans
                    /\ total_backup_size' = st.total
                    /\ completed_size' = st.completed
                    /\ copied_size' = st.copied
                    /\ files_sent' = st.sent
                    /\ trace' = st.trace
                    /\ last_exc' = st.exc
                    /\ summary' = [checked |-> st.completed,
                                   copied |-> st.copied, sent |-> st.sent]
    /\ runs' = runs + 1
    /\ UNCHANGED <<ssh_enabled, args, archives>>
    /\ UNCHANGED cronvars

\* client.ssh: the test for missing credentials builds a ValueError without
\* raising it, so connect is called in every case; what connect raises is
\* caught and printed, and ssh_enabled is set only after connect returned
ssh(credentials, connects) ==
    [attempted |-> TRUE, enabled |-> connects,
     exc |-> IF connects THEN "none" ELSE "SSHException"]

\* client.ssh(user, host, password)
Ssh(connects) ==
    /\ runs = 0
    /\ pc = "none"
    /\ ~ssh_enabled
    /\ ssh_enabled' = ssh("password", connects).enabled
    /\ UNCHANGED <<src, dst, sftp, open_channels, total_backup_size,
                   completed_size, copied_size, files_sent, runs, args,
                   archives, trace, last_exc, summary>>
    /\ UNCHANGED cronvars

\* no daemon method has been called
NoCall ==
    [seq |-> 0, op |-> "none", name |-> "", value |-> FALSE, exc |-> "none",
     asked |-> [cadence |-> "", week_day |-> "", day_time |-> <<>>,
                host |-> ""]]

\* no CronDaemon has been constructed
NoDaemon ==
    /\ crons = <<>>
    /\ store = <<>>
    /\ check_path = "dir"
    /\ active = "missing"
    /\ now = 0
    /\ pc = "none"
    /\ ticks = 0
    /\ fired = <<>>
    /\ verdict = ""
    /\ call = NoCall

\* the credentials the command line hands to ssh: --pwd, else --key, else none
Credentials == {"password", "key_file", "none"}

\* cli.interface with --host: zl.ssh(user, host, password, key_file, port)
Connect(credentials, connects) ==
    /\ runs = 0
    /\ pc = "none"
    /\ call.op = "none"
    /\ ~ssh_enabled
    /\ LET r == ssh(credentials, connects)
       IN  /\ ssh_enabled' = r.enabled
           /\ call' = [NoCall EXCEPT !.seq = call.seq + 1, !.op = "ssh",
                                     !.name = credentials,
                                     !.value = r.attempted, !.exc = r.exc]
    /\ UNCHANGED <<src, dst, sftp, open_channels, total_backup_size,
                   completed_size, copied_size, files_sent, runs, args,
                   archives, trace, last_exc, summary>>
    /\ UNCHANGED <<crons, store, check_path, active, now, pc, ticks, fired,
                   verdict>>

\* client.compress(origin, format) called on a directory; a call that never
\* leaves its loop stays at "polling"
Compress ==
    /\ runs = 0
    /\ pc = "none"
    /\ call.op = "none"
    /\ src[Root].kind = "dir"
    /\ LET r == compress(archives, Option("origin", PlainName),
                         Option("format", "zip"))
       IN  /\ archives' = r.files
           /\ pc' = IF r.waits THEN "polling" ELSE "none"
           /\ call' = [NoCall EXCEPT !.seq = call.seq + 1, !.op = "compress",
                                     !.exc = r.exc]
    /\ UNCHANGED <<src, dst, ssh_enabled, sftp, open_channels,
                   total_backup_size, completed_size, copied_size, files_sent,
                   runs, args, trace, last_exc, summary>>
    /\ UNCHANGED <<crons, store, check_path, active, now, ticks, fired,
                   verdict>>

\* the options one session of the command line passes to every backup call
Args == [force : BOOLEAN, clean : BOOLEAN, log_path : BOOLEAN]
NoSummary == [checked |-> 0, copied |-> 0, sent |-> 0]

Init ==
    /\ src \in Trees
    /\ dst \in Trees
    /\ ssh_enabled = FALSE
    /\ sftp = FALSE
    /\ open_channels = 0
    /\ total_backup_size = 0
    /\ completed_size = 0
    /\ copied_size = 0
    /\ files_sent = 0
    /\ runs = 0
    /\ args \in Args
    /\ archives = {}
    /\ trace = <<>>
    /\ last_exc = "none"
    /\ summary = NoSummary
    /\ NoDaemon

Next ==
    \/ Backup
    \/ \E connects \in BOOLEAN : Ssh(connects)

Spec == Init /\ [][Next]_vars

-----------------------------------------------------------------------------
(* The clock.  A timestamp counts units of 1/Res second since the epoch;   *)
(* local time is taken to be UTC, without daylight saving.                 *)

\* int(now.timestamp())
Sec(t) == t \div Res

\* datetime.weekday(): Monday is 0; 1970-01-01 was a Thursday
weekday(t) == ((Sec(t) \div 86400) + 3) % 7

\* now.strftime('%H:%M'), as <<hour, minute>>
strftime(t) == <<(Sec(t) % 86400) \div 3600, ((Sec(t) % 86400) \div 60) % 60>>

\* Sunday 1970-02-08 00:00:00, the start of the daemon's runs in the model
SundayMidnight == 38 * 86400 * Res

-----------------------------------------------------------------------------
(* Jobs.  An entry of CronDaemon.crons: a cron object (loaded), or the     *)
(* None that cron.load returns (not loaded).  An unset week_day is "", an  *)
(* unset day_time is <<>> and an unset last_trigger is 0: check_cron tests *)
(* each of them for truth only.                                            *)

Job(name, cadence, week_day, day_time, last_trigger) ==
    [name |-> name, loaded |-> TRUE, cadence |-> cadence,
     week_day |-> week_day, day_time |-> day_time,
     last_trigger |-> last_trigger, host |-> "localhost",
     clean_artifacts |-> TRUE, force |-> FALSE, log_path |-> FALSE]

NoneEntry(name) ==
    [name |-> name, loaded |-> FALSE, cadence |-> "", week_day |-> "",
     day_time |-> <<>>, last_trigger |-> 0, host |-> "",
     clean_artifacts |-> FALSE, force |-> FALSE, log_path |-> FALSE]

\* the scheduling fields of a job as a record of the store holds them
Record(c) ==
    [cadence |-> c.cadence, week_day |-> c.week_day, day_time |-> c.day_time]

\* self.crons[name], and name in self.crons
JobNamed(cs, n) == cs[CHOOSE i \in 1 .. Len(cs) : cs[i].name = n]

IsJob(cs, n) == \E i \in 1 .. Len(cs) : cs[i].name = n

\* weekday_to_int, on the spellings of the model; -1 stands for None
weekday_to_int(w) ==
    CASE w \in {"Monday", "mon"} -> 0
      [] w \in {"Tuesday", "tue"} -> 1
      [] w \in {"Wednesday", "wed"} -> 2
      [] w \in {"Thursday", "thu"} -> 3
      [] w \in {"Friday", "fri"} -> 4
      [] w \in {"Saturday", "sat"} -> 5
      [] w \in {"Sunday", "sun"} -> 6
      [] OTHER -> -1

\* the cadences for which check_cron assigns idle_threshold
HasThreshold(cadence) == cadence \in {"daily", "hourly", "weekly", "montly"}

\* a threshold that every idle time reaches
idle_threshold_none(cadence) == 0

\* idle_threshold, in seconds
idle_threshold(cadence) ==
    CASE cadence = "daily" -> 86340
      [] cadence = "hourly" -> 3600
      [] cadence = "weekly" -> 604740
      [] cadence = "montly" -> 2419140

\* idle_time_in_sec = int(now.timestamp()) - last_trigger, in clock units
idle_time(c, t) == Sec(t) * Res - c.last_trigger

\* check_cron without the comparison of day_time with the minute of the call
check_cron_any_minute(c, t) ==
    IF ~c.loaded THEN "AttributeError"
    ELSE IF c.cadence # "once" /\ c.last_trigger # 0 /\ ~HasThreshold(c.cadence)
    THEN "UnboundLocalError"
    ELSE IF /\ c.cadence # "once"
            /\ c.last_trigger # 0
            /\ idle_time(c, t) < idle_threshold(c.cadence) * Res
    THEN "False"
    ELSE IF c.week_day # "" /\ weekday_to_int(c.week_day) # weekday(t)
    THEN "False"
    ELSE IF c.day_time # <<>> /\ c.cadence = "once"
    THEN "UnboundLocalError"
    ELSE "True"

\* CronDaemon.check_cron: "True", "False", or the exception it raises.
\* string_time is assigned in the branch of the other cadences only, and
\* idle_threshold for the four spellings above only.
check_cron(c, t) ==
    IF ~c.loaded THEN "AttributeError"
    ELSE IF c.cadence # "once" /\ c.last_trigger # 0 /\ ~HasThreshold(c.cadence)
    THEN "UnboundLocalError"
    ELSE IF /\ c.cadence # "once"
            /\ c.last_trigger # 0
            /\ idle_time(c, t) < idle_threshold(c.cadence) * Res
    THEN "False"
    ELSE IF c.week_day # "" /\ weekday_to_int(c.week_day) # weekday(t)
    THEN "False"
    ELSE IF c.day_time # <<>> /\ c.cadence = "once"
    THEN "UnboundLocalError"
    ELSE IF c.day_time # <<>> /\ c.day_time # strftime(t)
    THEN "False"
    ELSE "True"

-----------------------------------------------------------------------------
(* The activity flag and the job store.                                    *)

\* is_enabled without a look at the flag file
is_enabled_ignoring_flag == "True"

\* CronDaemon.is_enabled: bool(int(text of ACTIVE_PATH))
is_enabled ==
    IF check_path # "dir" THEN "NotADirectoryError"
    ELSE IF active = "missing" THEN "FileNotFoundError"
    ELSE IF active = "" THEN "ValueError"
    ELSE IF active = "1" THEN "True" ELSE "False"

\* CronDaemon.load_cron_paths: every file name below the cache directory,
\* the files of the directory itself first
WalkOrder == <<"j1", "j2", "daemon", "active">>

load_cron_paths ==
    SelectSeq(WalkOrder,
              LAMBDA n : \/ n \in DOMAIN store
                         \/ n = "daemon" /\ check_path # "dir"
                         \/ n = "active" /\ check_path = "dir"
                                         /\ active # "missing")

\* cron.load(name) for a file name found by the walk: it opens
\* <file name>.json and reads keys that cron.save never writes, fails and
\* returns None
cron_load(name) == NoneEntry(name)

RECURSIVE load_loop(_, _)
load_loop(cs, names) ==
    IF names = <<>> THEN cs
    ELSE LET n == Head(names)
         IN  load_loop(IF \E i \in 1 .. Len(cs) : cs[i].name = n THEN cs
                       ELSE Append(cs, cron_load(n)),
                       Tail(names))

\* CronDaemon.load_crons
load_crons(cs) == load_loop(cs, load_cron_paths)

-----------------------------------------------------------------------------
(* The poll loop.  The daemon during one iteration: its jobs, the clock,   *)
(* the client it is (cl), the trigger log and the exception that ended the *)
(* for loop.                                                               *)

\* how long a triggered backup takes: a second, or five minutes
Durations == {Res, 300 * Res}

\* trigger_cron recording the time of successful backups only
trigger_cron_on_success(ds, i, d) ==
    LET c == ds.crons[i]
        st == send([ds.cl EXCEPT !.exc = "none", !.trace = <<>>], Root,
                   c.force, c.clean_artifacts, c.log_path)
        end == ds.clock + d
    IN  [ds EXCEPT !.cl = st,
                   !.clock = end,
                   !.crons[i].last_trigger = IF st.exc = "none" THEN end ELSE @,
                   !.runs = @ + 1,
                   !.fired = Append(@, [name |-> c.name, cadence |-> c.cadence,
                                        host |-> c.host, remote |-> st.ssh,
                                        start |-> ds.clock, end |-> end,
                                        exc |-> st.exc])]

\* CronDaemon.trigger_cron on job i, its backup taking d
trigger_cron(ds, i, d) ==
    LET c == ds.crons[i]
        st == send([ds.cl EXCEPT !.exc = "none", !.trace = <<>>], Root,
                   c.force, c.clean_artifacts, c.log_path)
        end == ds.clock + d
    IN  [ds EXCEPT !.cl = st,
                   !.clock = end,
                   !.crons[i].last_trigger = end,
                   !.runs = @ + 1,
                   !.fired = Append(@, [name |-> c.name, cadence |-> c.cadence,
                                        host |-> c.host, remote |-> st.ssh,
                                        start |-> ds.clock, end |-> end,
                                        exc |-> st.exc])]

\* for name in self.crons: check, trigger; an exception ends the loop
RECURSIVE tick_loop(_, _, _)
tick_loop(ds, i, d) ==
    IF i > Len(ds.crons) THEN ds
    ELSE LET v == check_cron(ds.crons[i], ds.clock)
         IN  IF v = "False" THEN tick_loop(ds, i + 1, d)
             ELSE IF v = "True" THEN tick_loop(trigger_cron(ds, i, d), i + 1, d)
             ELSE [ds EXCEPT !.exc = v]

DaemonState ==
    [crons |-> load_crons(crons), clock |-> now, cl |-> ClientState,
     fired |-> fired, runs |-> runs, exc |-> "none"]

\* the loop without its except clause: the exception leaves service
service_no_except(exc) == IF exc = "none" THEN "serving" ELSE "crashed"

\* except: print_exc(), around the body of the loop: the loop goes on
service_except(exc) == "serving"

\* one iteration of the loop of CronDaemon.service, sleep(1) included
TickBody(d) ==
    /\ pc = "serving"
    /\ is_enabled = "True"
    /\ LET ds == tick_loop(DaemonState, 1, d)
       IN  /\ crons' = ds.crons
           /\ now' = ds.clock + Res
           /\ fired' = ds.fired
           /\ runs' = ds.runs
           /\ src' = ds.cl.src
           /\ dst' = ds.cl.dst
           /\ sftp' = ds.cl.sftp
           /\ open_channels' = ds.cl.chans
           /\ total_backup_size' = ds.cl.total
           /\ completed_size' = ds.cl.completed
           /\ copied_size' = ds.cl.copied
           /\ files_sent' = ds.cl.sent
           /\ IF ds.runs = runs
              THEN UNCHANGED <<trace, last_exc, summary>>
              ELSE /\ trace' = ds.cl.trace
                   /\ last_exc' = ds.cl.exc
                   /\ summary' = [checked |-> ds.cl.completed,
                                  copied |-> ds.cl.copied, sent |-> ds.cl.sent]
           /\ pc' = service_except(ds.exc)
           /\ call' = [call EXCEPT !.op = "service", !.exc = ds.exc]
    /\ UNCHANGED <<ssh_enabled, args, archives, store, check_path, active,
                   verdict>>

\* an iteration of the loop, within the bounds of the model
ServiceTick(d, horizon) ==
    /\ ticks < MaxTicks
    /\ Sec(now) < Sec(SundayMidnight) + horizon
    /\ TickBody(d)
    /\ ticks' = ticks + 1

\* no iteration of the current minute can trigger: no file is left to load
\* and every job waits for another minute of the day
Idle ==
    /\ load_crons(crons) = crons
    /\ \A i \in 1 .. Len(crons) :
          crons[i].loaded =>
             crons[i].day_time # <<>> /\ crons[i].day_time # strftime(now)

\* the iterations of an idle minute, taken together
SkipMinute(horizon) ==
    /\ pc = "serving"
    /\ is_enabled = "True"
    /\ Sec(now) < Sec(SundayMidnight) + horizon
    /\ Idle
    /\ now' = ((Sec(now) \div 60) + 1) * 60 * Res
    /\ UNCHANGED <<crons, store, check_path, active, pc, ticks, fired, verdict,
                   call>>
    /\ UNCHANGED syncvars

\* an iteration of the loop of a daemon that runs for days; those of its
\* idle minutes are left to SkipMinute
PollTick(d) ==
    /\ Sec(now) < Sec(SundayMidnight) + PollHorizon
    /\ ~Idle
    /\ TickBody(d)
    /\ UNCHANGED ticks

\* CronDaemon.set_activity: open(CHECK_PATH, 'w+') and write '0' or '1'
set_activity_raises == check_path = "dir"

\* the start of CronDaemon.service: set_activity(True)
ServiceStart ==
    /\ pc = "constructed"
    /\ IF set_activity_raises
       THEN pc' = "crashed" /\ UNCHANGED check_path
       ELSE pc' = "serving" /\ check_path' = "1"
    /\ UNCHANGED <<crons, store, active, now, ticks, fired, verdict, call>>
    /\ UNCHANGED syncvars

\* while self.is_enabled(): the loop ends on a cleared flag, or the call
\* raises out of service
ServiceExit ==
    /\ pc = "serving"
    /\ is_enabled # "True"
    /\ pc' = IF is_enabled = "False" THEN "returned" ELSE "crashed"
    /\ UNCHANGED <<crons, store, check_path, active, now, ticks, fired,
                   verdict, call>>
    /\ UNCHANGED syncvars

\* another process writes the flag file ACTIVE_PATH
EnvSetFlag(v) ==
    /\ pc \in {"constructed", "serving"}
    /\ check_path' = "dir"
    /\ active' = v
    /\ <<check_path, active>> # <<"dir", v>>
    /\ UNCHANGED <<crons, store, now, pc, ticks, fired, verdict, call>>
    /\ UNCHANGED syncvars

\* a call of check_cron on the only job, outside the loop
CheckCron ==
    /\ pc = "checking"
    /\ verdict = ""
    /\ verdict' = check_cron(crons[1], now)
    /\ UNCHANGED <<crons, store, check_path, active, now, pc, ticks, fired,
                   call>>
    /\ UNCHANGED syncvars

-----------------------------------------------------------------------------
(* The daemon's methods, called before service, and the other processes    *)
(* that write the cache directory.                                         *)

\* cron.save: self.target is a PurePosixPath, which has no absolute(); the
\* AttributeError is caught and printed before any file is opened
save(files, c) == files

\* the cron object that register_cron builds: it hands its arguments to
\* cron(...) by position, where week_day comes before cadence, so cadence
\* lands in week_day, host in cadence and user (None) in host
register_cron_object(name, day_time, cadence, host) ==
    [Job(name, host, cadence, day_time, 0) EXCEPT !.host = ""]

\* CronDaemon.register_cron(origin, target, name, day_time, cadence, host)
RegisterCron(name, day_time, cadence, host) ==
    /\ pc = "constructed"
    /\ call.seq < MaxCalls
    /\ LET c == register_cron_object(name, day_time, cadence, host)
       IN  /\ store' = save(store, c)
           /\ crons' = load_loop(crons, SelectSeq(WalkOrder,
                          LAMBDA n : \/ n \in DOMAIN save(store, c)
                                     \/ n = "daemon" /\ check_path # "dir"
                                     \/ n = "active" /\ check_path = "dir"
                                                     /\ active # "missing"))
    /\ call' = [seq |-> call.seq + 1, op |-> "register_cron", name |-> name,
                value |-> FALSE, exc |-> "none",
                asked |-> [cadence |-> cadence, week_day |-> "",
                           day_time |-> day_time, host |-> host]]
    /\ UNCHANGED <<check_path, active, now, pc, ticks, fired, verdict>>
    /\ UNCHANGED syncvars

\* the jobs without the one named n
Pop(cs, n) == SelectSeq(cs, LAMBDA c : c.name # n)

\* what CronDaemon.delete_cron(name) raises: self.crons[name], .origin of
\* None, unlink of the origin path, and the pop from self.cron_paths, which
\* the model takes to hold the files of the moment
delete_cron_exc(name) ==
    IF ~IsJob(crons, name) THEN "KeyError"
    ELSE IF ~JobNamed(crons, name).loaded THEN "AttributeError"
    ELSE IF src[Root] = Absent THEN "FileNotFoundError"
    ELSE IF src[Root].kind = "dir" THEN "IsADirectoryError"
    ELSE IF \A i \in 1 .. Len(load_cron_paths) : load_cron_paths[i] # name
    THEN "KeyError"
    ELSE "none"

\* CronDaemon.delete_cron(name): every job of the model has the origin Root
DeleteCron(name) ==
    /\ pc = "constructed"
    /\ call.seq < MaxCalls
    /\ IF /\ IsJob(crons, name)
          /\ JobNamed(crons, name).loaded
          /\ src[Root].kind = "file"
       THEN /\ src' = [src EXCEPT ![Root] = Absent]
            /\ crons' = Pop(crons, name)
       ELSE UNCHANGED <<src, crons>>
    /\ call' = [NoCall EXCEPT !.seq = call.seq + 1, !.op = "delete_cron",
                              !.name = name, !.exc = delete_cron_exc(name)]
    /\ UNCHANGED <<store, check_path, active, now, pc, ticks, fired, verdict>>
    /\ UNCHANGED <<dst, ssh_enabled, sftp, open_channels, total_backup_size,
                   completed_size, copied_size, files_sent, runs, args, archives,
                   trace,
                   last_exc, summary>>

\* CronDaemon.set_activity(value), called on the daemon
SetActivity(value) ==
    /\ pc = "constructed"
    /\ call.seq < MaxCalls
    /\ IF set_activity_raises
       THEN UNCHANGED check_path
       ELSE check_path' = IF value THEN "1" ELSE "0"
    /\ call' = [NoCall EXCEPT !.seq = call.seq + 1, !.op = "set_activity",
                              !.value = value,
                              !.exc = IF set_activity_raises
                                      THEN "IsADirectoryError" ELSE "none"]
    /\ UNCHANGED <<crons, store, active, now, pc, ticks, fired, verdict>>
    /\ UNCHANGED syncvars

\* the record that another process writes
EditedRecord == [cadence |-> "daily", week_day |-> "", day_time |-> <<0, 1>>]

\* another process writes the record file n: a new job, or an edited one
EnvWrite(n) ==
    /\ pc \in {"constructed", "serving"}
    /\ IF n \in DOMAIN store THEN store[n] # EditedRecord ELSE TRUE
    /\ store' = [m \in DOMAIN store \cup {n} |->
                    IF m = n THEN EditedRecord ELSE store[m]]
    /\ UNCHANGED <<crons, check_path, active, now, pc, ticks, fired, verdict,
                   call>>
    /\ UNCHANGED syncvars

\* another process removes the record file n
EnvRemove(n) ==
    /\ pc \in {"constructed", "serving"}
    /\ n \in DOMAIN store
    /\ store' = [m \in DOMAIN store \ {n} |-> store[m]]
    /\ UNCHANGED <<crons, check_path, active, now, pc, ticks, fired, verdict,
                   call>>
    /\ UNCHANGED syncvars

-----------------------------------------------------------------------------
(* The daemon's specifications.                                            *)

EmptyTree == [p \in Paths |-> Absent]
\* an origin whose backup fails (a file to send, and no connection) and one
\* whose backup succeeds (directories only)
OneFile == [p \in Paths |-> IF p = Root THEN Dir
                            ELSE IF p = <<"T", "a">> THEN File(1) ELSE Absent]
OneDir == [p \in Paths |-> IF p \in {Root, <<"T", "b">>} THEN Dir ELSE Absent]

\* the client a CronDaemon is when constructed: never connected
FreshClient ==
    /\ dst = EmptyTree
    /\ ssh_enabled = FALSE
    /\ sftp = FALSE
    /\ open_channels = 0
    /\ total_backup_size = 0
    /\ completed_size = 0
    /\ copied_size = 0
    /\ files_sent = 0
    /\ runs = 0
    /\ args = [force |-> FALSE, clean |-> TRUE, log_path |-> FALSE]
    /\ archives = {}
    /\ trace = <<>>
    /\ last_exc = "none"
    /\ summary = NoSummary

\* a constructed daemon: set_activity(False) has written a regular file
Constructed ==
    /\ check_path = "0"
    /\ active = "missing"
    /\ now = SundayMidnight
    /\ pc = "constructed"
    /\ ticks = 0
    /\ fired = <<>>
    /\ verdict = ""
    /\ call = NoCall

\* a store that holds the record of every job of the list
StoreOf(cs) ==
    [n \in {cs[i].name : i \in 1 .. Len(cs)} \ {"daemon"} |->
        Record(JobNamed(cs, n))]

Cadences == {"once", "hourly", "daily", "weekly", "monthly"}

FirstJobs == {Job("j1", cadence, "", day_time, 0) :
                cadence \in Cadences, day_time \in {<<>>, <<0, 1>>}}
SecondJobs == {Job("j2", cadence, "", <<>>, 0) : cadence \in {"once", "hourly"}}

JobLists ==
    {<<a>> : a \in FirstJobs}
    \cup {<<a, NoneEntry("daemon")>> : a \in FirstJobs}
    \cup {<<NoneEntry("daemon"), a>> : a \in FirstJobs}
    \cup {<<a, b>> : a \in FirstJobs, b \in SecondJobs}

CronInit ==
    /\ src \in {OneFile, OneDir}
    /\ FreshClient
    /\ Constructed
    /\ crons \in JobLists
    /\ store = StoreOf(crons)

CronNext ==
    \/ ServiceStart
    \/ ServiceExit
    \/ \E v \in {"0", "1"} : EnvSetFlag(v)
    \/ \E d \in Durations : ServiceTick(d, CronHorizon)
    \/ SkipMinute(CronHorizon)

CronSpec == CronInit /\ [][CronNext]_vars

\* the loop comes back to while self.is_enabled() after every sleep(1)
FairCronSpec == CronSpec /\ WF_vars(ServiceExit)

\* a daemon with one daily job for 00:01, polling from Sunday 00:00:00
PollInit ==
    /\ src \in {OneFile, OneDir}
    /\ FreshClient
    /\ Constructed
    /\ crons = <<Job("j1", "daily", "", <<0, 1>>, 0)>>
    /\ store = StoreOf(crons)

PollNext ==
    \/ ServiceStart
    \/ ServiceExit
    \/ \E v \in {"0", "1"} : EnvSetFlag(v)
    \/ \E d \in Durations : PollTick(d)
    \/ SkipMinute(PollHorizon)

PollSpec == PollInit /\ [][PollNext]_vars

\* a daemon whose methods are called and whose store other processes write
FileOrigin == [p \in Paths |-> IF p = Root THEN File(1) ELSE Absent]

RemoteJob(name, cadence) ==
    [Job(name, cadence, "", <<>>, 0) EXCEPT !.host = "remote"]

DaemonJobLists ==
    {<<Job("j1", cadence, "", <<>>, 0)>> : cadence \in {"once", "hourly"}}
    \cup {<<Job("j1", "hourly", "", <<>>, 0), Job("j2", "daily", "", <<>>, 0)>>,
          <<NoneEntry("daemon"), Job("j1", "hourly", "", <<>>, 0)>>,
          <<RemoteJob("j1", "hourly")>>}

DaemonInit ==
    /\ src \in {OneFile, OneDir, FileOrigin}
    /\ FreshClient
    /\ Constructed
    /\ crons \in DaemonJobLists
    /\ store = StoreOf(crons)

JobNames == {"j1", "j2"}

DaemonNext ==
    \/ ServiceStart
    \/ ServiceExit
    \/ \E v \in {"0", "1"} : EnvSetFlag(v)
    \/ \E d \in Durations : ServiceTick(d, CronHorizon)
    \/ \E n \in JobNames : EnvWrite(n)
    \/ \E n \in JobNames : EnvRemove(n)
    \/ \E n \in JobNames, host \in {"localhost", "remote"} :
          RegisterCron(n, <<0, 1>>, "daily", host)
    \/ \E n \in JobNames \cup {"daemon"} : DeleteCron(n)
    \/ \E v \in BOOLEAN : SetActivity(v)

DaemonSpec == DaemonInit /\ [][DaemonNext]_vars

\* check_cron as a function of the job and the time of the call
CheckTimes ==
    {SundayMidnight + o : o \in {0, Res - 1, 60 * Res - 1, 60 * Res,
                                 86400 * Res, 86460 * Res}}
Elapsed ==
    {Res} \cup {th * Res + e : th \in {3600, 86340, 604740, 2419140},
                               e \in {-1, 0, 1}}

CheckInit ==
    /\ src = OneDir
    /\ FreshClient
    /\ check_path = "0"
    /\ active = "missing"
    /\ pc = "checking"
    /\ ticks = 0
    /\ fired = <<>>
    /\ verdict = ""
    /\ call = NoCall
    /\ now \in CheckTimes
    /\ \E cadence \in Cadences, week_day \in {"", "Sunday", "Monday"},
         day_time \in {<<>>, <<0, 0>>, <<0, 1>>} :
          \/ crons = <<Job("j1", cadence, week_day, day_time, 0)>>
          \/ \E el \in Elapsed :
                crons = <<Job("j1", cadence, week_day, day_time, now - el)>>
    /\ store = StoreOf(crons)

CheckNext == CheckCron

CheckSpec == CheckInit /\ [][CheckNext]_vars

-----------------------------------------------------------------------------
(* One session of the command line: an optional connection, or a direct    *)
(* call of the archive stage, and backup calls with the session's options. *)

\* a directory whose only file is empty
EmptyFile == [p \in Paths |-> IF p = Root THEN Dir
                              ELSE IF p = <<"T", "a">> THEN File(0)
                              ELSE Absent]

CliOrigins == {OneFile, OneDir, FileOrigin, EmptyFile}
CliTargets == {EmptyTree, OneFile}

\* -a, -c, --compression_format and the name of --origin; digest tells
\* whether md5sum works on the host of the session
CliArgs ==
    [force : {FALSE}, clean : BOOLEAN, log_path : {FALSE}, compress : BOOLEAN,
     format : Formats, origin : Names, digest : BOOLEAN]

CliInit ==
    /\ src \in CliOrigins
    /\ dst \in CliTargets
    /\ ssh_enabled = FALSE
    /\ sftp = FALSE
    /\ open_channels = 0
    /\ total_backup_size = 0
    /\ completed_size = 0
    /\ copied_size = 0
    /\ files_sent = 0
    /\ runs = 0
    /\ args \in CliArgs
    /\ archives = {}
    /\ trace = <<>>
    /\ last_exc = "none"
    /\ summary = NoSummary
    /\ NoDaemon

CliNext ==
    \/ \E credentials \in Credentials : \E connects \in BOOLEAN :
          Connect(credentials, connects)
    \/ Compress
    \/ Backup

CliSpec == CliInit /\ [][CliNext]_vars

-----------------------------------------------------------------------------
(* What a backup call did, read off its events.                            *)

Events(t, e) == {t[i].path : i \in {j \in 1 .. Len(t) : t[j].ev = e}}

\* this step is a backup call
BackupStep == runs' = runs + 1

\* the last backup call ran through: send raised nothing and no put failed
Complete == last_exc = "none" /\ Events(trace, "fail") = {}

-----------------------------------------------------------------------------
(* The sync engine's claims.                                               *)

\* C1: Idempotence.  A backup with force=false that immediately follows a
\* complete backup of the same tree into the same destination puts no file
\* and reports files_sent = 0.
C1_Idempotence ==
    [][(BackupStep /\ runs = 1 /\ Complete /\ ~args.force)
        => (Events(trace', "put") = {} /\ summary'.sent = 0)]_vars

\* C2: Mirror correctness.  After a backup with clean_artifacts=true of an
\* existing origin, the destination copy has exactly the origin's paths
\* and every file has its origin's content.
C2_Mirror ==
    (runs >= 1 /\ args.clean /\ src[Root] # Absent) => dst = src

\* C3: Pruning enabled.  In a backup with clean_artifacts=true, at every
\* directory level the walk visits, a destination entry whose base name is
\* not in the origin directory is gone when the call returns, and an entry
\* that is tracked stays.
C3_PruneEnabled ==
    [][(BackupStep /\ args.clean)
        => \A p \in Events(trace', "walk") : \A q \in Children(p) :
              /\ src[q] = Absent => dst'[q] = Absent
              /\ (src[q] # Absent /\ dst[q] # Absent) => dst'[q] # Absent]_vars

\* C4: Pruning disabled.  A backup with clean_artifacts=false removes no
\* destination entry, at the root level or in any nested directory.
C4_PruneDisabled ==
    [][(BackupStep /\ ~args.clean)
        => \A p \in Paths : dst[p] # Absent => dst'[p] # Absent]_vars

\* C5: Force bypass.  In a backup with force=true every origin file the walk
\* visits whose destination copy has the same digest is put again.
C5_ForceBypass ==
    [][(BackupStep /\ args.force)
        => \A p \in Events(trace', "skip") \cup Events(trace', "fail") :
              (dst[p] = src[p]) => p \in Events(trace', "put")]_vars

-----------------------------------------------------------------------------
(* What the scheduler did.                                                 *)

\* the name of the day that datetime.weekday() numbers
DayNames ==
    <<"Monday", "Tuesday", "Wednesday", "Thursday", "Friday", "Saturday",
      "Sunday">>

\* C6: a job with cadence once is triggered at most once over a run of the
\* daemon, and once it has been triggered it is neither in the daemon's job
\* set nor in the store.
C6_OnceOnly ==
    \A i \in 1 .. Len(fired) :
       fired[i].cadence = "once" =>
          /\ \A j \in 1 .. Len(fired) : fired[j].name = fired[i].name => j = i
          /\ ~IsJob(crons, fired[i].name)
          /\ fired[i].name \notin DOMAIN store

\* C7: check_cron reports a job with week_day and day_time set eligible
\* only when the weekday of the call is week_day and its time, truncated to
\* the minute, is day_time.
C7_Windowing ==
    (/\ pc = "checking"
     /\ verdict # ""
     /\ crons[1].week_day # ""
     /\ crons[1].day_time # <<>>
     /\ ~(/\ DayNames[weekday(now) + 1] = crons[1].week_day
          /\ strftime(now) = crons[1].day_time))
    => verdict # "True"

\* a weekly job for Sunday 00:00, last triggered more than 604740 s ago, is
\* reported eligible on a Sunday at 00:00
C7_Witness ==
    /\ pc = "checking"
    /\ verdict = "True"
    /\ crons[1].cadence = "weekly"
    /\ crons[1].week_day = "Sunday"
    /\ crons[1].day_time = <<0, 0>>
    /\ crons[1].last_trigger # 0
    /\ now - crons[1].last_trigger > 604740 * Res
    /\ weekday(now) = 6
    /\ strftime(now) = <<0, 0>>

\* the thresholds of the cadences, in seconds
Threshold(cadence) ==
    CASE cadence = "hourly" -> 3600
      [] cadence = "daily" -> 86340
      [] cadence = "weekly" -> 604740
      [] cadence = "monthly" -> 2419140

\* C8: for a job without week_day and day_time, of cadence hourly, daily,
\* weekly or monthly, check_cron returns True when last_trigger is unset,
\* and otherwise returns True if the whole seconds elapsed since
\* last_trigger are at least the threshold of the cadence and False if not.
C8_Thresholds ==
    (/\ pc = "checking"
     /\ verdict # ""
     /\ crons[1].week_day = ""
     /\ crons[1].day_time = <<>>
     /\ crons[1].cadence \in {"hourly", "daily", "weekly", "monthly"})
    => verdict = IF \/ crons[1].last_trigger = 0
                    \/ idle_time(crons[1], now)
                          >= Threshold(crons[1].cadence) * Res
                 THEN "True" ELSE "False"

\* C9: a trigger attempt leaves the job's last_trigger at the time the
\* attempt ended, whatever the backup did, and the job of a periodic cadence
\* is not eligible at the next iteration, which comes within the hour.
C9_LastTrigger ==
    [][\A i \in 1 .. Len(fired') :
          i > Len(fired) =>
             LET f == fired'[i]
                 c == JobNamed(crons', f.name)
             IN  /\ c.last_trigger = f.end
                 /\ (/\ f.cadence \in {"hourly", "daily", "weekly", "monthly"}
                     /\ now' - f.end < 3600 * Res)
                    => check_cron(c, now') # "True"]_vars

\* the backup of an hourly job failed, and the next iteration left it alone
C9_Witness ==
    /\ crons # <<>>
    /\ ticks >= 2
    /\ Len(fired) = 1
    /\ fired[1].name = crons[1].name
    /\ fired[1].cadence = "hourly"
    /\ fired[1].exc # "none"
    /\ crons[1].last_trigger = fired[1].end
    /\ check_cron(crons[1], now) = "False"

\* the minute 00:01 of day k of the run
WindowStart(k) == SundayMidnight + (k * 86400 + 60) * Res
WindowEnd(k) == WindowStart(k) + 60 * Res

\* C10: a daemon that polls every second triggers its daily job for 00:01
\* during the minute 00:01 of every day, whatever the backups took.
C10_NoMissedDay ==
    \A k \in 0 .. (PollHorizon \div 86400) :
       (/\ crons # <<>>
        /\ crons[1].cadence = "daily"
        /\ crons[1].day_time = <<0, 1>>
        /\ now >= WindowEnd(k))
       => \E i \in 1 .. Len(fired) :
             /\ fired[i].start >= WindowStart(k)
             /\ fired[i].start < WindowEnd(k)

-----------------------------------------------------------------------------
(* What the daemon's methods did.                                          *)

\* a call of a daemon method was made in this step
Called(op) == call'.seq = call.seq + 1 /\ call'.op = op

\* C11: after an iteration of the poll loop the daemon holds, for every
\* record of the store, a job with the fields of that record as they were
\* persisted when the iteration began, and holds no job without a record.
C11_Reload ==
    [][ticks' = ticks + 1 =>
          /\ \A n \in DOMAIN store :
                /\ IsJob(crons', n)
                /\ JobNamed(crons', n).loaded
                /\ Record(JobNamed(crons', n)) = store[n]
          /\ \A i \in 1 .. Len(crons') :
                crons'[i].loaded => crons'[i].name \in DOMAIN store]_vars

\* C12: when register_cron returns, the store holds a record of the job
\* under its name, the job is in the daemon's job set, and cron.load of the
\* name yields a job with the cadence, week_day, day_time and host that were
\* registered.
C12_RegisterRoundTrip ==
    [][Called("register_cron") =>
          LET n == call'.name
              c == cron_load(n)
          IN  /\ n \in DOMAIN store'
              /\ IsJob(crons', n)
              /\ JobNamed(crons', n).loaded
              /\ c.loaded
              /\ c.cadence = call'.asked.cadence
              /\ c.week_day = call'.asked.week_day
              /\ c.day_time = call'.asked.day_time
              /\ c.host = call'.asked.host]_vars

\* C13: delete_cron(name) on a job of the daemon removes the job's record
\* from the store and the job from the job set, leaves the files at the
\* origin and under the target as they were, and leaves every other job and
\* every other record unchanged.
C13_DeleteFrame ==
    [][(Called("delete_cron") /\ IsJob(crons, call'.name)
                              /\ JobNamed(crons, call'.name).loaded) =>
          LET n == call'.name
          IN  /\ n \notin DOMAIN store'
              /\ ~IsJob(crons', n)
              /\ src' = src
              /\ dst' = dst
              /\ Pop(crons', n) = Pop(crons, n)
              /\ \A m \in DOMAIN store \ {n} :
                    m \in DOMAIN store' /\ store'[m] = store[m]]_vars

\* C14: set_activity(v) returns, and is_enabled() then returns v.
C14_FlagRoundTrip ==
    [][Called("set_activity") =>
          /\ call'.exc = "none"
          /\ is_enabled' = IF call'.value THEN "True" ELSE "False"]_vars

\* the flag file read by is_enabled holds 0
Cleared == check_path = "dir" /\ active = "0"

\* C15: no job is triggered by an iteration that begins with the flag
\* cleared, and a serving daemon whose flag is cleared returns from service
\* unless the flag is set again.
C15_Stop ==
    /\ [][Cleared => fired' = fired]_vars
    /\ (pc = "serving" /\ Cleared) ~> (pc = "returned" \/ ~Cleared)

\* the daemon ran a backup, the flag was cleared, and service returned
C15_Witness ==
    /\ pc = "returned"
    /\ Cleared
    /\ fired # <<>>

\* C16: an iteration of the poll loop in which a check raised or a backup
\* failed leaves the daemon serving, its clock past the sleep that ends the
\* iteration and the flag as it was.
C16_LoopSurvives ==
    [][(/\ ticks' = ticks + 1
        /\ \/ call'.exc # "none"
           \/ \E i \in 1 .. Len(fired') : i > Len(fired) /\ fired'[i].exc # "none")
       => /\ pc' = "serving"
          /\ now' >= now + Res
          /\ is_enabled' = "True"]_vars

\* a backup failed, a check raised, and the loop ran another iteration
C16_Witness ==
    /\ pc = "serving"
    /\ ticks >= 2
    /\ call.exc # "none"
    /\ fired # <<>>
    /\ fired[1].exc # "none"

\* C17: every backup the daemon triggers for a job whose host is not
\* localhost runs over a remote session.
C17_StoredParams ==
    \A i \in 1 .. Len(fired) :
       fired[i].host # "localhost" => fired[i].remote

-----------------------------------------------------------------------------
(* What a backup call did with failures, counters and the summary.         *)

\* every file of the origin tree got its turn, and every directory its walk
Processed(t, fs) ==
    \A p \in Paths :
       /\ fs[p].kind = "file" =>
             p \in Events(t, "skip") \cup Events(t, "put") \cup Events(t, "fail")
       /\ fs[p].kind = "dir" => p \in Events(t, "walk")

\* C18: in a backup call in which the put of a file failed, the failed file
\* is not counted as sent, and every file and every directory of the origin
\* tree is still processed.
C18_TransferFailure ==
    [][(BackupStep /\ Events(trace', "fail") # {}) =>
          /\ Events(trace', "fail") \cap Events(trace', "put") = {}
          /\ summary'.sent <= Cardinality(Events(trace', "put"))
          /\ Processed(trace', src)]_vars

\* C19: after a backup call has returned, total_backup_size, completed_size,
\* copied_size and files_sent are all 0.
C19_CounterReset ==
    runs >= 1 =>
       /\ total_backup_size = 0
       /\ completed_size = 0
       /\ copied_size = 0
       /\ files_sent = 0

\* C20: the summary that ends a backup call shows the number of files the
\* call put, their bytes as bytes copied, and the bytes of the files it
\* visited as bytes checked.
C20_Summary ==
    [][BackupStep =>
          /\ summary'.sent = Cardinality(Events(trace', "put"))
          /\ summary'.copied = SumSizes(src, Events(trace', "put"))
          /\ summary'.checked =
                SumSizes(src, Events(trace', "skip") \cup Events(trace', "put")
                              \cup Events(trace', "fail"))]_vars

-----------------------------------------------------------------------------
(* What a walk did, level by level.                                        *)

\* the events of a file that got its turn
FileEvents == {"skip", "put", "fail"}

\* C27: when a directory of the origin is walked whose destination path is a
\* regular file, the backup call ends with a failure, puts no file below that
\* path and leaves the destination file as it was.
C27_TypeMismatch ==
    [][BackupStep =>
          \A p \in Events(trace', "walk") :
             dst[p].kind = "file" =>
                /\ last_exc' # "none"
                /\ Events(trace', "put") \cap Below(p) = {}
                /\ dst'[p] = dst[p]]_vars

\* C29: in the events of a backup call, the turn of every file of a
\* directory comes before the walk of any subdirectory of that directory,
\* and the removal of an entry of a destination directory comes after every
\* other event below that directory.
C29_Ordering ==
    \A i \in 1 .. Len(trace) : \A j \in 1 .. Len(trace) :
       /\ (/\ trace[i].ev \in FileEvents
           /\ trace[j].ev = "walk"
           /\ Len(trace[j].path) >= 2
           /\ Parent(trace[i].path) = Parent(trace[j].path)) => i < j
       /\ (/\ trace[i].ev = "remove"
           /\ trace[j].path \in Below(Parent(trace[i].path))
           /\ \/ trace[j].ev # "remove"
              \/ Len(trace[j].path) > Len(trace[i].path)) => j < i

\* the file T/b had its turn before the directory T/a was walked, although
\* the listing has a before b
C29_Witness ==
    \E i \in 1 .. Len(trace) : \E j \in 1 .. Len(trace) :
       /\ i < j
       /\ trace[i] = [ev |-> "put", path |-> <<"T", "b">>]
       /\ trace[j] = [ev |-> "walk", path |-> <<"T", "a">>]

\* C30: every removal of a backup call deletes a direct child of the mirror
\* of a walked origin directory, and the origin directory holds no file and
\* no directory of that name.
C30_PruneConfined ==
    [][BackupStep =>
          \A q \in Events(trace', "remove") :
             /\ Len(q) >= 2
             /\ Parent(q) \in Events(trace', "walk")
             /\ src[Parent(q)].kind = "dir"
             /\ src[q] = Absent
             /\ dst[q] # Absent]_vars

\* the artifact T/b was removed and the tracked file T/a was kept
C30_Witness ==
    /\ runs >= 1
    /\ <<"T", "b">> \in Events(trace, "remove")
    /\ src[<<"T", "a">>].kind = "file"
    /\ dst[<<"T", "a">>] = src[<<"T", "a">>]
    /\ dst[<<"T", "b">>] = Absent

-----------------------------------------------------------------------------
(* What a session of the command line did: connection and archive stage.   *)

\* the names of the model in which .zip, .rar or .tar occurs
ArchiveNames == {<<"T", "zip">>, <<"T", "tar", "gz">>}

\* the events of a backup call that change the destination
Changes(t) == Events(t, "put") \cup Events(t, "mkdir") \cup Events(t, "remove")

\* C21: a backup call that follows a failed connection transfers nothing,
\* creates no directory and removes nothing: neither file system changes.
C21_ConnectionFailure ==
    [][(BackupStep /\ call.op = "ssh" /\ call.exc # "none")
        => (Changes(trace') = {} /\ dst' = dst /\ src' = src)]_vars

\* C22: ssh called with neither a password nor a key file reports an error
\* and does not try to connect, so the client is not connected afterwards.
C22_Credentials ==
    [][(Called("ssh") /\ call'.name = "none")
        => (~call'.value /\ call'.exc # "none" /\ ~ssh_enabled')]_vars

\* C23: a backup call whose origin name contains .zip, .rar or .tar never
\* calls the archive stage, whatever compress is: no archive is written, the
\* origin is left as it is and it is the origin itself that send is given.
C23_ArchiveDetection ==
    [][(BackupStep /\ args.origin \in ArchiveNames)
        => /\ Events(trace', "compress") = {}
           /\ archives' = archives
           /\ src' = src
           /\ src[Root].kind = "dir" => Root \in Events(trace', "walk")
           /\ (src[Root].kind = "file" /\ ssh_enabled)
                 => \E e \in FileEvents : Root \in Events(trace', e)]_vars

\* a directory named T.tar.gz was walked by a backup call with compress
C23_Witness ==
    /\ runs >= 1
    /\ args.compress
    /\ args.origin = <<"T", "tar", "gz">>
    /\ src[Root].kind = "dir"
    /\ Root \in Events(trace, "walk")

\* C24: a backup call with compress on a directory whose name is no archive
\* name ends without an exception, transfers exactly one file, which is none
\* of the directory's own files, and leaves no archive next to the origin.
C24_CompressedRun ==
    [][(BackupStep /\ args.compress /\ args.origin \notin ArchiveNames
                   /\ src[Root].kind = "dir")
        => /\ last_exc' = "none"
           /\ Cardinality(Events(trace', "put")) = 1
           /\ Events(trace', "put") \cap Below(Root) = {}
           /\ archives' = {}]_vars

\* C25: an origin whose name is an archive name still exists, unchanged,
\* after a backup call, with compress or without, connected or not.
C25_ArchiveKept ==
    [][(BackupStep /\ args.origin \in ArchiveNames)
        => src'[Root] = src[Root]]_vars

\* the archive file T.zip was put by a backup call with compress and is
\* still there
C25_Witness ==
    /\ runs >= 1
    /\ args.compress
    /\ args.origin = <<"T", "zip">>
    /\ Root \in Events(trace, "put")
    /\ src[Root] = File(1)

\* C26: a call of compress on a directory returns without an exception,
\* having written the archive named <base name>.<format>, for every base
\* name and every format.
C26_ArchiveTermination ==
    [][Called("compress")
        => /\ call'.exc = "none"
           /\ pc' # "polling"
           /\ archives' = archives \cup {Append(args.origin, args.format)}]_vars

\* C28: in a connected backup call on a host where the digest command gives
\* no output, every file of the origin whose destination is an existing
\* file is put, and the destination then has the content of the origin.
C28_DigestUnavailable ==
    [][(BackupStep /\ ssh_enabled /\ ~args.digest
                   /\ ~(args.compress /\ args.origin \notin ArchiveNames))
        => \A p \in Paths :
              (/\ src[p].kind = "file"
               /\ dst[p].kind = "file"
               /\ \A q \in Paths : p \in Below(q) => src[q] # Absent)
              => (p \in Events(trace', "put") /\ dst'[p] = src[p])]_vars

-----------------------------------------------------------------------------
(* Counters, channels and the source tree over the calls of a session.     *)

\* the events e of a trace, in order
Occurrences(t, e) == SelectSeq(t, LAMBDA x : x.ev = e)

\* C31: in every backup call on an existing origin the total size is
\* computed exactly once, by the outermost send call, and it is the size of
\* the origin tree of that call.
C31_TotalOnce ==
    [][(BackupStep /\ src[Root] # Absent)
        => Occurrences(trace', "size") = <<[ev |-> "size", path |-> Root]>>]_vars

\* C32: after a backup call on a directory of non-zero size that ended
\* without an exception and showed progress for at least one file, the bytes
\* counted as completed, which are those of the last progress event, are at
\* most the total, and the total is not 0.
C32_ProgressBound ==
    [][(/\ BackupStep
        /\ src[Root].kind = "dir"
        /\ get_size(src, Root) > 0
        /\ last_exc' = "none"
        /\ \E e \in FileEvents : Events(trace', e) # {})
        => (/\ total_backup_size' > 0
            /\ completed_size' <= total_backup_size')]_vars

\* C35: a backup call leaves every node of the origin tree as it was.
C35_SourcePreserved ==
    [][BackupStep => src' = src]_vars

\* a second backup call has put a file, with a connection, and the file is
\* still in the origin
C35_Witness ==
    /\ runs = 2
    /\ ssh_enabled
    /\ \E p \in Events(trace, "put") : src[p].kind = "file" /\ dst[p] = src[p]

\* C36: after a backup call with a connection no sftp channel is left open
\* and the client holds no channel.
C36_Channels ==
    [][(BackupStep /\ ssh_enabled) => (open_channels' = 0 /\ ~sftp')]_vars

\* C37: in a backup call with a connection on an origin of total size 0,
\* every empty file of the origin that the destination lacks, in a directory
\* the destination has or gets, is put and counted in files_sent.
C37_ZeroSize ==
    [][(BackupStep /\ ssh_enabled /\ src[Root] # Absent
                   /\ get_size(src, Root) = 0 /\ dst[Root].kind # "file")
        => LET empty == {p \in Paths : /\ src[p] = File(0)
                                        /\ dst[p] = Absent
                                        /\ \A q \in Paths :
                                              p \in Below(q) =>
                                                 dst[q].kind # "file"}
           IN  /\ empty \subseteq Events(trace', "put")
               /\ summary'.sent >= Cardinality(empty)]_vars

-----------------------------------------------------------------------------
(* The daemon: windows of a job that runs once, the jobs of one tick, and  *)
(* the spacing of triggers.                                                *)

\* C33: for a job of cadence once with week_day or day_time set, check_cron
\* returns a decision: eligible when each of the two that is set matches the
\* weekday and the minute of the call, not eligible otherwise.
C33_OnceWindow ==
    (/\ pc = "checking"
     /\ verdict # ""
     /\ crons[1].cadence = "once"
     /\ crons[1].week_day # "" \/ crons[1].day_time # <<>>)
    => verdict =
          (IF /\ crons[1].week_day # ""
                    => DayNames[weekday(now) + 1] = crons[1].week_day
              /\ crons[1].day_time # <<>>
                    => strftime(now) = crons[1].day_time
           THEN "True" ELSE "False")

\* a job that check_cron reports eligible whenever it is asked: loaded, never
\* triggered, without week_day and day_time
AlwaysEligible(c) ==
    c.loaded /\ c.last_trigger = 0 /\ c.week_day = "" /\ c.day_time = <<>>

\* C34: in every iteration of the poll loop every job of the daemon gets its
\* check: a job that is eligible whenever it is asked is triggered in that
\* iteration, whatever happened to the jobs before it.
C34_NoStarvation ==
    [][ticks' = ticks + 1
       => \A i \in 1 .. Len(crons) :
             AlwaysEligible(crons[i])
             => \E k \in 1 .. Len(fired') :
                   k > Len(fired) /\ fired'[k].name = crons[i].name]_vars

\* C38: between two successive triggers of a job of cadence hourly, daily or
\* weekly, the second starts at least the threshold of the cadence after the
\* first ended; in particular not twice in one minute.
C38_Spacing ==
    \A i \in 1 .. Len(fired) : \A j \in 1 .. Len(fired) :
       (/\ i < j
        /\ fired[i].name = fired[j].name
        /\ fired[i].cadence \in {"hourly", "daily", "weekly"})
       => fired[j].start - fired[i].end >= Threshold(fired[i].cadence) * Res

\* the daily job for 00:01 was triggered on the first day and again, in its
\* minute, on the second
C38_Witness ==
    /\ Len(fired) >= 2
    /\ fired[1].name = fired[2].name
    /\ fired[1].cadence = "daily"
    /\ strftime(fired[1].start) = <<0, 1>>
    /\ strftime(fired[2].start) = <<0, 1>>
    /\ fired[2].start >= fired[1].start + 86400 * Res

====
